---- MODULE Spec2Model ----
(***************************************************************************)
(* FixAircraftFOV (fix_aircraft_fov.py): locate every cameras.cfg under a  *)
(* community folder, set InitialZoom of the sections whose Title matches   *)
(* a camera name, keep a backup copy beside each rewritten file, and       *)
(* restore the files from those backups.                                   *)
(*                                                                         *)
(* A behaviour is a sequence of runs of main(): each run is either the     *)
(* modify flow or the restore flow over the same directory tree.  The      *)
(* per-file handlers are single actions; the file system calls they make   *)
(* may fail (the environment chooses), within a budget of MaxFaults.       *)
(***************************************************************************)
EXTENDS Integers, Sequences, FiniteSets, TLC

\* ------------------------------------------------------------------ bounds
\* Number of runs of main() in one behaviour.
MaxRuns == 2
\* Number of file-system calls the environment lets fail in one behaviour.
MaxFaults == 1

\* ------------------------------------------------------- text of the files
\* A file is a sequence of lines.  A line is a section header "[k]", an
\* option "k<d>v" (d is the delimiter as written: "=" or " = "), a blank
\* line, or a line the parser cannot read (no header, no delimiter).
Sec(n) == [t |-> "sec", k |-> n, d |-> "", v |-> ""]
Opt(key, val) == [t |-> "opt", k |-> key, d |-> "=", v |-> val]
Blank == [t |-> "blank", k |-> "", d |-> "", v |-> ""]
Junk == [t |-> "junk", k |-> "", d |-> "", v |-> ""]

\* class CasePreservingConfigParser: option names are kept as written.
optionxform(optionstr) == optionstr

\* The empty ConfigParser.  A document is the ordered list of its sections,
\* each with its ordered options.
EmptyConfig == << >>

SectionNames(config) == {config[i].name : i \in 1..Len(config)}

SectionIndex(config, name) == CHOOSE i \in 1..Len(config) : config[i].name = name

HasOption(opts, key) == \E j \in 1..Len(opts) : opts[j].k = key

OptionValue(opts, key) == opts[CHOOSE j \in 1..Len(opts) : opts[j].k = key].v

\* dict assignment: an existing key keeps its place and takes the new
\* value, a new key is appended.
SetOption(opts, key, val) ==
  IF HasOption(opts, key)
  THEN [j \in 1..Len(opts) |-> IF opts[j].k = key THEN [k |-> key, v |-> val] ELSE opts[j]]
  ELSE Append(opts, [k |-> key, v |-> val])

\* configparser's _read, one line at a time.  st.cur is the section being
\* filled (0: none yet), st.added the sections and (section, option) pairs
\* this read has added, st.err the exception raised ("" when none).
ReadLine(st, line, strict) ==
  IF st.err # "" \/ line.t = "blank" THEN st
  ELSE IF line.t = "sec" THEN
    IF line.k \in SectionNames(st.config)
    THEN IF strict /\ <<line.k>> \in st.added
         THEN [st EXCEPT !.err = "DuplicateSectionError"]
         ELSE [st EXCEPT !.cur = SectionIndex(st.config, line.k),
                         !.added = @ \cup {<<line.k>>}]
    ELSE [st EXCEPT !.config = Append(@, [name |-> line.k, opts |-> << >>]),
                    !.cur = Len(st.config) + 1,
                    !.added = @ \cup {<<line.k>>}]
  ELSE IF st.cur = 0 THEN [st EXCEPT !.err = "MissingSectionHeaderError"]
  ELSE IF line.t = "junk" THEN [st EXCEPT !.err = "ParsingError"]
  ELSE IF strict /\ <<st.config[st.cur].name, optionxform(line.k)>> \in st.added
       THEN [st EXCEPT !.err = "DuplicateOptionError"]
       ELSE [st EXCEPT !.config[st.cur].opts = SetOption(@, optionxform(line.k), line.v),
                       !.added = @ \cup {<<st.config[st.cur].name, optionxform(line.k)>>}]

RECURSIVE ReadLines(_, _, _, _)
ReadLines(st, lines, i, strict) ==
  IF i > Len(lines) THEN st
  ELSE ReadLines(ReadLine(st, lines[i], strict), lines, i + 1, strict)

\* ReadConfig with the strict option never passed on.
ReadConfig_never_strict(lines, strict) ==
  ReadLines([config |-> EmptyConfig, cur |-> 0, added |-> {}, err |-> ""], lines, 1, FALSE)

\* config = CasePreservingConfigParser(strict=...); config.read(file_path)
\* on a file that could be opened: the document, or the exception.
ReadConfig(lines, strict) ==
  ReadLines([config |-> EmptyConfig, cur |-> 0, added |-> {}, err |-> ""], lines, 1, strict)

\* config.write(configfile): every section as its header, its options
\* written "key = value", and a blank line.
RECURSIVE WriteOptions(_, _)
WriteOptions(opts, j) ==
  IF j > Len(opts) THEN << >>
  ELSE <<[t |-> "opt", k |-> opts[j].k, d |-> " = ", v |-> opts[j].v]>> \o WriteOptions(opts, j + 1)

RECURSIVE WriteConfig(_, _)
WriteConfig(config, i) ==
  IF i > Len(config) THEN << >>
  ELSE <<Sec(config[i].name)>> \o WriteOptions(config[i].opts, 1) \o <<Blank>>
       \o WriteConfig(config, i + 1)

\* ------------------------------------------------------------------ floats
\* A camera zoom is a float; the model holds it in hundredths.  str(float)
\* prints the shortest decimal text: at least one digit after the point,
\* no trailing zero beyond it.
Digit(n) == <<"0", "1", "2", "3", "4", "5", "6", "7", "8", "9">>[n + 1]

RECURSIVE NatStr(_)
NatStr(n) == IF n < 10 THEN Digit(n) ELSE NatStr(n \div 10) \o Digit(n % 10)

FloatStr(z) ==
  NatStr(z \div 100) \o "." \o
  (IF z % 10 = 0 THEN Digit((z % 100) \div 10)
   ELSE Digit((z % 100) \div 10) \o Digit(z % 10))

\* ------------------------------------------------------------------- paths
\* A path is a directory and a file name; a name is its sequence of
\* characters (the letters of one word stand as one token).
CamerasCfg == <<"cameras", ".", "cfg">>

\* The directories of the community folder, in os.walk's order.
Dirs == <<"A", "B", "C">>

PathOf(dir, name) == [dir |-> dir, name |-> name]

\* Path.suffix: from the last dot of the name, unless the name starts or
\* ends with it.
LastDot(name) ==
  IF \E i \in 1..Len(name) : name[i] = "."
  THEN CHOOSE i \in 1..Len(name) : name[i] = "." /\ \A j \in (i + 1)..Len(name) : name[j] # "."
  ELSE 0

suffix(name) ==
  IF LastDot(name) > 1 /\ LastDot(name) < Len(name)
  THEN SubSeq(name, LastDot(name), Len(name))
  ELSE << >>

\* Path.with_suffix: the name with its suffix replaced.
with_suffix(file_path, new_suffix) ==
  [file_path EXCEPT !.name =
     SubSeq(@, 1, Len(@) - Len(suffix(@))) \o new_suffix]

startswith_dot(backup_ext) == Len(backup_ext) > 0 /\ backup_ext[1] = "."

get_backup_file_path(file_path, backup_ext) ==
  with_suffix(file_path,
              suffix(file_path.name)
                \o (IF startswith_dot(backup_ext) THEN backup_ext ELSE <<".">> \o backup_ext))

\* ------------------------------------------------------------- file system
\* A file system is a function from the paths that exist to their content.
copy2(fsys, src, dst) ==
  [p \in DOMAIN fsys \cup {dst} |-> IF p = dst THEN fsys[src] ELSE fsys[p]]

remove(fsys, path) == [p \in DOMAIN fsys \ {path} |-> fsys[p]]

\* open(path, "w"): the file exists and is empty.
truncate(fsys, path) ==
  [p \in DOMAIN fsys \cup {path} |-> IF p = path THEN << >> ELSE fsys[p]]

\* os.walk and the test file == "cameras.cfg", one directory after another.
RECURSIVE find_camera_cfg_files(_, _)
find_camera_cfg_files(fsys, i) ==
  IF i > Len(Dirs) THEN << >>
  ELSE (IF \E p \in DOMAIN fsys : p.dir = Dirs[i] /\ p.name = CamerasCfg
        THEN <<CHOOSE p \in DOMAIN fsys : p.dir = Dirs[i] /\ p.name = CamerasCfg>>
        ELSE << >>)
       \o find_camera_cfg_files(fsys, i + 1)

\* ----------------------------------------------------------- the mutation
\* section_matches_camera without the quoted form of the title.
section_matches_bare_only(config, section, camera_name) ==
  /\ HasOption(config[section].opts, "Title")
  /\ OptionValue(config[section].opts, "Title") = camera_name

section_matches_camera(config, section, camera_name) ==
  /\ HasOption(config[section].opts, "Title")
  /\ \/ OptionValue(config[section].opts, "Title") = camera_name
     \/ OptionValue(config[section].opts, "Title") = "\"" \o camera_name \o "\""

\* modify_section_initialzoom without the "already set" test.
modify_section_always(config, section, camera_zoom, dry) ==
  IF ~HasOption(config[section].opts, "InitialZoom")
  THEN [config |-> config, ret |-> FALSE]
  ELSE IF dry
  THEN [config |-> config, ret |-> TRUE]
  ELSE [config |-> [config EXCEPT ![section].opts =
                      SetOption(@, "InitialZoom", FloatStr(camera_zoom))],
        ret |-> TRUE]

\* The config after the call and the value returned.
modify_section_initialzoom(config, section, camera_zoom, dry) ==
  IF ~HasOption(config[section].opts, "InitialZoom")
  THEN [config |-> config, ret |-> FALSE]
  ELSE IF OptionValue(config[section].opts, "InitialZoom") = FloatStr(camera_zoom)
  THEN [config |-> config, ret |-> FALSE]
  ELSE IF dry
  THEN [config |-> config, ret |-> TRUE]
  ELSE [config |-> [config EXCEPT ![section].opts =
                      SetOption(@, "InitialZoom", FloatStr(camera_zoom))],
        ret |-> TRUE]

\* for section in config.sections(): ... of modify_single_camera_cfg.
\* marked collects the sections for which modify_section_initialzoom
\* returned True; modified is the handler's flag.
RECURSIVE ModifySections(_, _, _, _, _)
ModifySections(acc, section, camera_name, camera_zoom, dry) ==
  IF section > Len(acc.config) THEN acc
  ELSE IF section_matches_camera(acc.config, section, camera_name)
  THEN ModifySections(
         [config |-> modify_section_initialzoom(acc.config, section, camera_zoom, dry).config,
          found_matching_title |-> TRUE,
          modified |-> acc.modified
                         \/ modify_section_initialzoom(acc.config, section, camera_zoom, dry).ret,
          marked |-> IF modify_section_initialzoom(acc.config, section, camera_zoom, dry).ret
                     THEN acc.marked \cup {acc.config[section].name}
                     ELSE acc.marked],
         section + 1, camera_name, camera_zoom, dry)
  ELSE ModifySections(acc, section + 1, camera_name, camera_zoom, dry)

\* backup_camera_cfg without the DRY_RUN test.
backup_ignoring_dry_run(fsys, file_path, backup_ext, dry) ==
  copy2(fsys, file_path, get_backup_file_path(file_path, backup_ext))

\* shutil.copy2(file_path, backup_file_path), unless DRY_RUN.
backup_camera_cfg(fsys, file_path, backup_ext, dry) ==
  IF dry THEN fsys
  ELSE copy2(fsys, file_path, get_backup_file_path(file_path, backup_ext))

\* The restore with the arguments of copy2 exchanged.
restore_copy_reversed(fsys, file_path, backup_file_path) ==
  remove(copy2(fsys, file_path, backup_file_path), backup_file_path)

\* shutil.copy2(backup_file_path, file_path); os.remove(backup_file_path)
restore_from_backup(fsys, file_path, backup_file_path) ==
  remove(copy2(fsys, backup_file_path, file_path), backup_file_path)

\* ------------------------------------------------------------------ inputs
\* The cameras.cfg files a tree may hold at the start.
F_Plain ==
  <<Sec("CAMERA_PILOT"), Opt("Title", "Pilot"), Opt("InitialZoom", "1.0"), Opt("Other", "x"),
    Blank,
    Sec("CAMERA_COPILOT"), Opt("Title", "Copilot"), Opt("InitialZoom", "1.0")>>

F_Quoted ==
  <<Sec("CAMERA_PILOT"), Opt("Title", "\"Pilot\""), Opt("InitialZoom", "0.350")>>

F_AtTarget ==
  <<Sec("CAMERA_PILOT"), Opt("Title", "Pilot"), Opt("InitialZoom", "0.35"),
    Sec("CAMERA_VR"), Opt("Title", "\"Pilot\""), Opt("Other", "x")>>

F_NoMatch ==
  <<Sec("CAMERA_COPILOT"), Opt("Title", "Copilot"), Opt("InitialZoom", "1.0")>>

F_DupKey ==
  <<Sec("CAMERA_PILOT"), Opt("Title", "Pilot"), Opt("InitialZoom", "1"),
    Opt("InitialZoom", "0.35")>>

F_DupSection ==
  <<Sec("CAMERA_PILOT"), Opt("Title", "Copilot"), Opt("InitialZoom", "1.0"),
    Sec("CAMERA_PILOT"), Opt("Title", "\"Pilot\"")>>

F_Malformed ==
  <<Sec("CAMERA_PILOT"), Opt("Title", "Pilot"), Junk, Opt("InitialZoom", "1.0")>>

Contents == {F_Plain, F_Quoted, F_AtTarget, F_NoMatch, F_DupKey, F_DupSection, F_Malformed}

\* What a backup file left by an earlier use of the tool holds.
F_OldBackup == <<Sec("CAMERA_PILOT"), Opt("Title", "Pilot"), Opt("InitialZoom", "0.5")>>

\* A file of the tree that is no cameras.cfg.
OtherFile == PathOf("C", <<"aircraft", ".", "cfg">>)

\* The directories that hold a cameras.cfg.
CameraDirs == {"A", "B"}

CfgPaths == {PathOf(d, CamerasCfg) : d \in CameraDirs}

\* The command line: --camera-name, --camera-zoom (hundredths), --backup-ext.
CameraNames == {"Pilot", ""}
CameraZooms == {0, 35, 100}
ModifyExts == {<<"bak">>}
RestoreExts == {<<"bak">>, <<".", "bak">>}

\* The file-system calls that may fail, by handler.  "read": open/read in
\* config.read raises OSError; "backup": copy2 to the backup raises, the
\* backup path untouched; "write": config.write raises after open(file_path,
\* "w") truncated the file; "copy": copy2 from the backup raises, the file
\* untouched; "remove": os.remove raises.
ModifyFaults == {"read", "backup", "write"}
RestoreFaults == {"copy", "remove"}

\* ------------------------------------------------------------------- state
VARIABLES
  fs,          \* the file system
  DRY_RUN,     \* global DRY_RUN
  FILE_STATS,  \* global FILE_STATS
  pc,          \* "start", "loop" (the for loop of find_and_*), "done" (summary printed)
  op,          \* the flow of the current run: "", "modify", "restore"
  args,        \* the arguments of the current run
  file_paths,  \* list(find_camera_cfg_files(...))
  idx,         \* position of the for loop in file_paths
  last,        \* locals of the handler call that ended last
  outcome,     \* per file, how its handler ended in this run ("" not yet)
  io,          \* per file, the file-system call that failed in this run
  fsStart,     \* the file system when this run started
  prev,        \* the run before this one
  fs0,         \* the file system at the start of the behaviour
  runs,        \* runs started
  faults       \* file-system calls that failed

vars == <<fs, DRY_RUN, FILE_STATS, pc, op, args, file_paths, idx, last, outcome, io,
          fsStart, prev, fs0, runs, faults>>

NoArgs == [camera_name |-> "", camera_zoom |-> 0, backup_ext |-> << >>, disable_strict |-> FALSE]

NoPath == PathOf("", << >>)

NoLast == [file |-> NoPath, stats |-> [total |-> 0, modified |-> 0, unchanged |-> 0, errors |-> 0],
           read |-> FALSE, parsed |-> EmptyConfig, config |-> EmptyConfig, marked |-> {}]

NoOutcome == [p \in CfgPaths |-> ""]
NoIo == [p \in CfgPaths |-> "none"]

\* What is kept of a run once the next one starts.
ThisRun ==
  [op |-> op, dry |-> DRY_RUN, camera_name |-> args.camera_name,
   camera_zoom |-> args.camera_zoom, disable_strict |-> args.disable_strict,
   fsStart |-> fsStart, outcome |-> outcome, io |-> io]

NoRun ==
  [op |-> "", dry |-> FALSE, camera_name |-> "", camera_zoom |-> 0, disable_strict |-> FALSE,
   fsStart |-> << >>, outcome |-> NoOutcome, io |-> NoIo]

\* A tree at the start: the content of each cameras.cfg and whether a backup
\* of it is there already.  The second directory holds one of SecondContents
\* and no backup.
SecondContents == {F_Plain}

InitialTrees ==
  {t \in [CfgPaths -> Contents \X {TRUE, FALSE}] :
     /\ t[PathOf("B", CamerasCfg)][1] \in SecondContents
     /\ ~t[PathOf("B", CamerasCfg)][2]}

TreeOf(t) ==
  [p \in CfgPaths \cup {OtherFile}
        \cup {get_backup_file_path(q, <<"bak">>) : q \in {r \in CfgPaths : t[r][2]}} |->
     IF p \in CfgPaths THEN t[p][1]
     ELSE IF p = OtherFile THEN F_NoMatch
     ELSE F_OldBackup]

Init ==
  /\ \E t \in InitialTrees : fs = TreeOf(t)
  /\ DRY_RUN = FALSE
  /\ FILE_STATS = [total |-> 0, modified |-> 0, unchanged |-> 0, errors |-> 0]
  /\ pc = "start"
  /\ op = ""
  /\ args = NoArgs
  /\ file_paths = << >>
  /\ idx = 1
  /\ last = NoLast
  /\ outcome = NoOutcome
  /\ io = NoIo
  /\ fsStart = fs
  /\ prev = NoRun
  /\ fs0 = fs
  /\ runs = 0
  /\ faults = 0

\* ----------------------------------------------------------------- actions
\* Lines 188-195 and 243-250: the counters are zeroed, the files are listed.
BeginRun(flow, dry, a) ==
  /\ pc \in {"start", "done"}
  /\ runs < MaxRuns
  /\ DRY_RUN' = dry
  /\ file_paths' = find_camera_cfg_files(fs, 1)
  /\ FILE_STATS' = [total |-> Len(file_paths'), modified |-> 0, unchanged |-> 0, errors |-> 0]
  /\ pc' = "loop"
  /\ op' = flow
  /\ args' = a
  /\ idx' = 1
  /\ last' = NoLast
  /\ outcome' = NoOutcome
  /\ io' = NoIo
  /\ fsStart' = fs
  /\ prev' = IF op = "" THEN prev ELSE ThisRun
  /\ runs' = runs + 1
  /\ UNCHANGED <<fs, fs0, faults>>

\* main() with --modify: DRY_RUN is set, the arguments are checked, and
\* find_and_modify_cameras starts.
find_and_modify_cameras ==
  \E dry \in BOOLEAN, camera_name \in CameraNames, camera_zoom \in CameraZooms,
     backup_ext \in ModifyExts, disable_strict \in BOOLEAN :
    /\ ~(camera_name = "" \/ camera_zoom = 0)
    /\ BeginRun("modify", dry,
                [camera_name |-> camera_name, camera_zoom |-> camera_zoom,
                 backup_ext |-> backup_ext, disable_strict |-> disable_strict])

\* main() with --restore.
find_and_restore_cameras ==
  \E dry \in BOOLEAN, backup_ext \in RestoreExts :
    BeginRun("restore", dry, [NoArgs EXCEPT !.backup_ext = backup_ext])

Inc(stats, counter) == [stats EXCEPT ![counter] = @ + 1]

\* The early return taken on "no title matched" instead of "not modified".
no_matching_title(modified, found_matching_title) == ~found_matching_title

\* Line 160, "if not modified": the handler returns before the backup.
no_changes_needed(modified, found_matching_title) == ~modified

\* modify_single_camera_cfg(file_path, ...) from the file system fsys and
\* the counters stats, when the call named by fault fails ("none": no call
\* fails): the file system and the counters it leaves, how it ended, and
\* whether the failing call was reached (hit).
ModifyOutcome(fsys, stats, file_path, a, dry, fault) ==
  LET rd == IF fault = "read"
            THEN [config |-> EmptyConfig, err |-> ""]  \* config.read skips the file
            ELSE ReadConfig(fsys[file_path], ~a.disable_strict)
      loop == ModifySections([config |-> rd.config, found_matching_title |-> FALSE,
                              modified |-> FALSE, marked |-> {}],
                             1, a.camera_name, a.camera_zoom, dry)
      backed == backup_camera_cfg(fsys, file_path, a.backup_ext, dry)
      counted == Inc(stats, "modified")
      locals == [read |-> rd.err = "", parsed |-> rd.config,
                 config |-> IF rd.err = "" THEN loop.config ELSE rd.config,
                 marked |-> IF rd.err = "" THEN loop.marked ELSE {}]
  IN  IF rd.err # ""
      THEN [fs |-> fsys, stats |-> Inc(stats, "errors"), outcome |-> "error",
            hit |-> FALSE, locals |-> locals]
      ELSE IF no_changes_needed(loop.modified, loop.found_matching_title)
      THEN [fs |-> fsys, stats |-> Inc(stats, "unchanged"), outcome |-> "no_change",
            hit |-> fault = "read", locals |-> locals]
      ELSE IF ~dry /\ fault = "backup"
      THEN [fs |-> fsys, stats |-> Inc(stats, "errors"), outcome |-> "io_error",
            hit |-> TRUE, locals |-> locals]
      ELSE IF dry
      THEN [fs |-> backed, stats |-> counted, outcome |-> "changed",
            hit |-> FALSE, locals |-> locals]
      ELSE IF fault = "write"
      THEN [fs |-> truncate(backed, file_path), stats |-> Inc(counted, "errors"),
            outcome |-> "io_error", hit |-> TRUE, locals |-> locals]
      ELSE [fs |-> [backed EXCEPT ![file_path] = WriteConfig(loop.config, 1)],
            stats |-> counted, outcome |-> "changed", hit |-> FALSE,
            locals |-> locals]

\* restore_single_camera_cfg(file_path, backup_ext), likewise.
RestoreOutcome(fsys, stats, file_path, a, dry, fault) ==
  LET backup_file_path == get_backup_file_path(file_path, a.backup_ext)
  IN  IF backup_file_path \in DOMAIN fsys
      THEN IF dry
           THEN [fs |-> fsys, stats |-> Inc(stats, "modified"), outcome |-> "would_restore",
                 hit |-> FALSE]
           ELSE IF fault = "copy"
           THEN [fs |-> fsys, stats |-> Inc(Inc(stats, "errors"), "modified"),
                 outcome |-> "io_error", hit |-> TRUE]
           ELSE IF fault = "remove"
           THEN [fs |-> copy2(fsys, backup_file_path, file_path),
                 stats |-> Inc(Inc(stats, "errors"), "modified"),
                 outcome |-> "io_error", hit |-> TRUE]
           ELSE [fs |-> restore_from_backup(fsys, file_path, backup_file_path),
                 stats |-> Inc(stats, "modified"), outcome |-> "restored", hit |-> FALSE]
      ELSE [fs |-> fsys, stats |-> Inc(stats, "unchanged"), outcome |-> "no_backup",
            hit |-> FALSE]

\* One turn of "for file_path in file_paths" with the handler's result r.
Handled(file_path, r, fault, locals) ==
  /\ \/ fault = "none"
     \/ r.hit /\ faults < MaxFaults
  /\ fs' = r.fs
  /\ FILE_STATS' = r.stats
  /\ outcome' = [outcome EXCEPT ![file_path] = r.outcome]
  /\ io' = [io EXCEPT ![file_path] = fault]
  /\ faults' = IF fault = "none" THEN faults ELSE faults + 1
  /\ last' = [file |-> file_path, stats |-> FILE_STATS, read |-> locals.read,
              parsed |-> locals.parsed, config |-> locals.config, marked |-> locals.marked]
  /\ idx' = idx + 1
  /\ UNCHANGED <<DRY_RUN, pc, op, args, file_paths, fsStart, prev, fs0, runs>>

modify_single_camera_cfg ==
  /\ pc = "loop" /\ op = "modify" /\ idx <= Len(file_paths)
  /\ \E fault \in ModifyFaults \cup {"none"} :
       Handled(file_paths[idx],
               ModifyOutcome(fs, FILE_STATS, file_paths[idx], args, DRY_RUN, fault),
               fault,
               ModifyOutcome(fs, FILE_STATS, file_paths[idx], args, DRY_RUN, fault).locals)

restore_single_camera_cfg ==
  /\ pc = "loop" /\ op = "restore" /\ idx <= Len(file_paths)
  /\ \E fault \in RestoreFaults \cup {"none"} :
       Handled(file_paths[idx],
               RestoreOutcome(fs, FILE_STATS, file_paths[idx], args, DRY_RUN, fault),
               fault,
               [read |-> FALSE, parsed |-> EmptyConfig, config |-> EmptyConfig, marked |-> {}])

\* Lines 200-203 and 255-258: the loop is over, the counters are printed.
print_summary ==
  /\ pc = "loop" /\ idx > Len(file_paths)
  /\ pc' = "done"
  /\ UNCHANGED <<fs, DRY_RUN, FILE_STATS, op, args, file_paths, idx, last, outcome, io,
                 fsStart, prev, fs0, runs, faults>>

Next ==
  \/ find_and_modify_cameras
  \/ find_and_restore_cameras
  \/ modify_single_camera_cfg
  \/ restore_single_camera_cfg
  \/ print_summary

Spec == Init /\ [][Next]_vars

\* ------------------------------------------------------- stated properties
\* The backup of cameras.cfg as the documentation names it: cameras.cfg.bak.
BackupOf(p) == [p EXCEPT !.name = @ \o <<".", "bak">>]

\* Python's str() of the zooms of CameraZooms.
TargetText(z) == IF z = 35 THEN "0.35" ELSE IF z = 100 THEN "1.0" ELSE "0.0"

\* Path p is the same file, or as absent, in both file systems.
Same(fsA, fsB, p) ==
  /\ (p \in DOMAIN fsA) <=> (p \in DOMAIN fsB)
  /\ p \in DOMAIN fsA /\ p \in DOMAIN fsB => fsA[p] = fsB[p]

Count(S) == Cardinality(S)

TitleMatches(opts, name) ==
  \E j \in 1..Len(opts) : opts[j].k = "Title" /\ opts[j].v \in {name, "\"" \o name \o "\""}

HasKey(opts, key) == \E j \in 1..Len(opts) : opts[j].k = key

ValueOf(opts, key) == opts[CHOOSE j \in 1..Len(opts) : opts[j].k = key].v

\* The section must be rewritten: its title matches, it has an InitialZoom,
\* and that is not the target's text.
MustChange(sec, name, zoom) ==
  /\ TitleMatches(sec.opts, name)
  /\ HasKey(sec.opts, "InitialZoom")
  /\ ValueOf(sec.opts, "InitialZoom") # TargetText(zoom)

\* The handler of the modify flow has just ended on file f.
JustModified(f) == op = "modify" /\ last.file = f

\* ---- C1
\* C1: a non-dry-run modify that rewrote file f (content C before it, no
\* backup of f before it), followed by a non-dry-run restore (with the same
\* backup extension, or one naming the same backup path) whose copy and
\* remove did not fail on f, leaves f with content exactly C and no backup.
C1_RoundTrip ==
  \A f \in CfgPaths :
    ( /\ op = "restore" /\ ~DRY_RUN
      /\ prev.op = "modify" /\ ~prev.dry
      /\ prev.outcome[f] = "changed"
      /\ BackupOf(f) \notin DOMAIN prev.fsStart
      /\ outcome[f] # "" /\ io[f] = "none" )
    => /\ fs[f] = prev.fsStart[f]
       /\ BackupOf(f) \notin DOMAIN fs

C1_Witness ==
  \E f \in CfgPaths :
    /\ op = "restore" /\ ~DRY_RUN /\ prev.op = "modify" /\ ~prev.dry
    /\ prev.outcome[f] = "changed" /\ BackupOf(f) \notin DOMAIN prev.fsStart
    /\ outcome[f] = "restored"
    /\ fsStart[f] # prev.fsStart[f]
    /\ fs[f] = prev.fsStart[f]

FirstRunHandled(f) == prev.outcome[f] \in {"changed", "no_change"} /\ prev.io[f] = "none"

SecondModify ==
  /\ op = "modify"
  /\ prev.op = "modify" /\ ~prev.dry
  /\ prev.camera_name = args.camera_name /\ prev.camera_zoom = args.camera_zoom
  /\ prev.disable_strict = args.disable_strict

C4_FailuresCounted ==
  (pc = "done" /\ op = "modify") =>
    FILE_STATS.errors = Count({f \in CfgPaths : io[f] # "none" \/ outcome[f] = "error"})

\* ---- C5
\* No section of the document needs a change.
NothingToChange(config, name, zoom) ==
  \A i \in 1..Len(config) : ~MustChange(config[i], name, zoom)

\* C5: when the modify handler has read a file in which no section needs a
\* change (no title matches, or every matching section lacks InitialZoom or
\* holds the target already), the file is as it was, its backup is as it was
\* (absent or not), and only the unchanged counter has grown, by one.
C5_NoChangeNoBackup ==
  \A f \in CfgPaths :
    ( /\ JustModified(f) /\ last.read
      /\ NothingToChange(last.parsed, args.camera_name, args.camera_zoom) )
    => /\ Same(fs, fsStart, f)
       /\ Same(fs, fsStart, BackupOf(f))
       /\ FILE_STATS = [last.stats EXCEPT !.unchanged = @ + 1]

C5_Witness ==
  \E f \in CfgPaths :
    /\ JustModified(f) /\ last.read /\ ~DRY_RUN /\ io[f] = "none"
    /\ NothingToChange(last.parsed, args.camera_name, args.camera_zoom)
    /\ \E i \in 1..Len(last.parsed) :
         /\ TitleMatches(last.parsed[i].opts, args.camera_name)
         /\ HasKey(last.parsed[i].opts, "InitialZoom")
    /\ FILE_STATS.unchanged = last.stats.unchanged + 1
    /\ BackupOf(f) \notin DOMAIN fs

\* ---- C6
\* C6: at the summary of a non-dry-run restore, modified is the number of
\* files restored (copied back, backup removed), unchanged the number with
\* no backup, errors the number whose copy or remove failed.
C6_RestoreCounters ==
  (pc = "done" /\ op = "restore" /\ ~DRY_RUN) =>
    /\ FILE_STATS.modified = Count({f \in CfgPaths : outcome[f] = "restored"})
    /\ FILE_STATS.unchanged = Count({f \in CfgPaths : outcome[f] = "no_backup"})
    /\ FILE_STATS.errors = Count({f \in CfgPaths : io[f] # "none"})

\* ---- C7
\* The name of the section that line i of a file belongs to ("" before the
\* first header).
SecName(lines, i) ==
  IF \E j \in 1..i : lines[j].t = "sec"
  THEN lines[CHOOSE j \in 1..i : lines[j].t = "sec"
                                  /\ \A m \in (j + 1)..i : lines[m].t # "sec"].k
  ELSE ""

\* A header occurs twice, or a key occurs twice under one header.
HasDuplicate(lines) ==
  \E i, j \in 1..Len(lines) :
    /\ i < j
    /\ lines[i].t = lines[j].t
    /\ lines[i].k = lines[j].k
    /\ \/ lines[i].t = "sec"
       \/ lines[i].t = "opt" /\ SecName(lines, i) = SecName(lines, j)

\* Every line is a header, an option under a header, or blank.
WellFormed(lines) ==
  \A i \in 1..Len(lines) :
    /\ lines[i].t # "junk"
    /\ lines[i].t = "opt" => SecName(lines, i) # ""

\* Line i is the last one that gives its key in its section.
IsLastOccurrence(lines, i) ==
  /\ lines[i].t = "opt"
  /\ \A j \in (i + 1)..Len(lines) :
       ~(lines[j].t = "opt" /\ lines[j].k = lines[i].k
         /\ SecName(lines, j) = SecName(lines, i))

SectionNamed(config, name) == config[CHOOSE i \in 1..Len(config) : config[i].name = name]

\* C7: when the modify handler has opened a file with a duplicate header or
\* a duplicate key in one section: in strict mode the file is counted in
\* errors (alone), and it and its backup are as they were; with strict mode
\* disabled, and the file otherwise well formed, it is parsed, and every key
\* has, in the document the mutation works on, the value of its last
\* occurrence.
C7_Duplicates ==
  \A f \in CfgPaths :
    (JustModified(f) /\ io[f] = "none" /\ HasDuplicate(fsStart[f])) =>
      /\ ~args.disable_strict =>
           /\ ~last.read
           /\ FILE_STATS = [last.stats EXCEPT !.errors = @ + 1]
           /\ Same(fs, fsStart, f)
           /\ Same(fs, fsStart, BackupOf(f))
      /\ (args.disable_strict /\ WellFormed(fsStart[f])) =>
           /\ last.read
           /\ FILE_STATS.errors = last.stats.errors
           /\ \A i \in 1..Len(fsStart[f]) :
                IsLastOccurrence(fsStart[f], i) =>
                  /\ HasKey(SectionNamed(last.parsed, SecName(fsStart[f], i)).opts,
                            fsStart[f][i].k)
                  /\ ValueOf(SectionNamed(last.parsed, SecName(fsStart[f], i)).opts,
                             fsStart[f][i].k) = fsStart[f][i].v

\* The same file with a twice-given InitialZoom: an error in a strict run,
\* then parsed in a non-strict run, which sees the second value.
C7_Witness ==
  \E f \in CfgPaths :
    /\ JustModified(f) /\ io[f] = "none" /\ args.disable_strict
    /\ fsStart[f] = F_DupKey
    /\ prev.op = "modify" /\ ~prev.disable_strict /\ prev.outcome[f] = "error"
    /\ last.read
    /\ ValueOf(last.parsed[1].opts, "InitialZoom") = "0.35"

\* ---- C8
\* C8: when a non-dry-run modify handler has parsed a document: it has the
\* same sections after the loop; a section is marked modified exactly when
\* its Title is the camera name, bare or in double quotes, it has
\* InitialZoom, and that was not the target's text; a marked section has the
\* target's text as InitialZoom and its other keys as before; every other
\* section is as before; and the loop raised no error.
C8_MutationRule ==
  \A f \in CfgPaths :
    (JustModified(f) /\ ~DRY_RUN /\ last.read) =>
      /\ Len(last.config) = Len(last.parsed)
      /\ outcome[f] # "error"
      /\ \A i \in 1..Len(last.parsed) :
           /\ last.config[i].name = last.parsed[i].name
           /\ (last.parsed[i].name \in last.marked)
                <=> MustChange(last.parsed[i], args.camera_name, args.camera_zoom)
           /\ MustChange(last.parsed[i], args.camera_name, args.camera_zoom) =>
                /\ Len(last.config[i].opts) = Len(last.parsed[i].opts)
                /\ \A j \in 1..Len(last.parsed[i].opts) :
                     last.config[i].opts[j] =
                       IF last.parsed[i].opts[j].k = "InitialZoom"
                       THEN [k |-> "InitialZoom", v |-> TargetText(args.camera_zoom)]
                       ELSE last.parsed[i].opts[j]
           /\ ~MustChange(last.parsed[i], args.camera_name, args.camera_zoom) =>
                last.config[i] = last.parsed[i]

\* One section rewritten, beside a section with a quoted matching title and
\* no InitialZoom, left alone.
C8_Witness ==
  \E f \in CfgPaths :
    /\ JustModified(f) /\ ~DRY_RUN /\ last.read /\ outcome[f] = "changed"
    /\ \E i \in 1..Len(last.parsed) :
         /\ last.parsed[i].name \in last.marked
         /\ ValueOf(last.config[i].opts, "InitialZoom") = TargetText(args.camera_zoom)
    /\ \E i \in 1..Len(last.parsed) :
         /\ TitleMatches(last.parsed[i].opts, args.camera_name)
         /\ ~HasKey(last.parsed[i].opts, "InitialZoom")
         /\ last.parsed[i].name \notin last.marked

\* ---- C9
\* C9: at the summary of a run every file found is counted once:
\* modified + unchanged + errors = total.
C9_CounterPartition ==
  pc = "done" =>
    FILE_STATS.modified + FILE_STATS.unchanged + FILE_STATS.errors = FILE_STATS.total

\* ---- C10
\* C10: while only modify runs have been made and no file-system call has
\* failed, a backup that was not there at the start holds what its file held
\* at the start.
C10_BackupKeepsOriginal ==
  (op = "modify" /\ prev.op \in {"", "modify"} /\ runs <= 2 /\ faults = 0) =>
    \A f \in CfgPaths :
      (BackupOf(f) \in DOMAIN fs /\ BackupOf(f) \notin DOMAIN fs0) =>
        fs[BackupOf(f)] = fs0[f]

====
